---- MODULE Spec2Model ----
(***************************************************************************)
(* A model of the chat relay: the standalone HTTP variant                  *)
(* (chatbot_openrouter.py) and the interactive variant (chatbot_app.py).   *)
(*                                                                         *)
(* Python strings whose characters matter (message contents, keys, the     *)
(* Content-Length header, the system prompt) are sequences of one-character*)
(* strings, so that str.strip() and int() are computed, not assumed.       *)
(* The character "S" stands for a lone UTF-16 surrogate (what json.loads   *)
(* makes of the escape \ud800), which str.encode("utf-8") refuses.         *)
(***************************************************************************)
EXTENDS Integers, Sequences, FiniteSets, TLC

\* ------------------------------------------------------------------ bounds
\* Longest `messages` array a request body carries.
MaxMessages == 2
\* Handler threads that may be in flight together (SpecConc).
NumRequests == 2
\* User inputs of one interactive session (SpecUI).
MaxTurns == 3

\* ------------------------------------------------------- program constants
\* The largest accepted Content-Length.
MaxContentLength == 1000000

SeqUpTo(S, n) == UNION {[1..k -> S] : k \in 0..n}

\* --------------------------------------------------------- Python helpers
Whitespace == {" "}

RECURSIVE LStrip(_)
LStrip(s) ==
    IF s # <<>> /\ Head(s) \in Whitespace THEN LStrip(Tail(s)) ELSE s

RECURSIVE RStrip(_)
RStrip(s) ==
    IF s # <<>> /\ s[Len(s)] \in Whitespace
    THEN RStrip(SubSeq(s, 1, Len(s) - 1))
    ELSE s

\* str.strip()
Strip(s) == RStrip(LStrip(s))

\* An exception object: its class, str(e), and, for the adapter's
\* "Upstream error (<code>): <raw>", the code and the raw body it carries.
NoUpstreamBody == [t |-> "none", choices |-> <<>>]

Exc(type, msg) == [type |-> type, msg |-> msg, code |-> 0, raw |-> NoUpstreamBody]

NoExc == Exc("", "")

\* The outcome of a call: a returned value or a raised exception.
Return(v) == [ok |-> TRUE, val |-> v, exc |-> NoExc]

Raise(v, e) == [ok |-> FALSE, val |-> v, exc |-> e]

\* Python's class hierarchy, as far as `except ValueError` is concerned:
\* json.JSONDecodeError and UnicodeEncodeError derive from ValueError.
IsValueError(type) == type \in {"ValueError", "JSONDecodeError", "UnicodeEncodeError"}

Digits == <<"0", "1", "2", "3", "4", "5", "6", "7", "8", "9">>

IsDigit(c) == \E i \in 1..Len(Digits) : Digits[i] = c

DigitValue(c) == (CHOOSE i \in 1..Len(Digits) : Digits[i] = c) - 1

RECURSIVE DecimalValue(_, _)
DecimalValue(s, acc) ==
    IF s = <<>> THEN acc ELSE DecimalValue(Tail(s), acc * 10 + DigitValue(Head(s)))

\* int(text): surrounding whitespace, an optional sign, then digits.
PyInt(text) ==
    LET t == Strip(text)
        signed == t # <<>> /\ Head(t) \in {"+", "-"}
        digits == IF signed THEN Tail(t) ELSE t
    IN  IF digits = <<>> \/ \E i \in 1..Len(digits) : ~IsDigit(digits[i])
        THEN Raise(0, Exc("ValueError", "invalid literal for int() with base 10"))
        ELSE IF signed /\ Head(t) = "-"
             THEN Return(0 - DecimalValue(digits, 0))
             ELSE Return(DecimalValue(digits, 0))

\* ------------------------------------------------------------- environment
\* An environment variable: unset, or set to a text.
Unset == [set |-> FALSE, v |-> <<>>]

EnvText(v) == [set |-> TRUE, v |-> v]

\* x or y, for values that are None (unset) or a str.
PyOr(x, y) == IF x.set /\ x.v # <<>> THEN x ELSE y

KeyValues == {Unset, EnvText(<<>>), EnvText(<<" ">>), EnvText(<<" ", "k", " ">>)}

\* OPENAI_BASE_URL: unset (the default URL applies) or a text without a scheme.
DefaultBaseUrl == [scheme |-> "https", rest |-> "openrouter.ai/api/v1"]

BaseUrlValues == {[set |-> FALSE, url |-> DefaultBaseUrl],
                  [set |-> TRUE, url |-> [scheme |-> "", rest |-> "localhost"]]}

Envs ==
    [OPENROUTER_API_KEY : KeyValues, OPENAI_API_KEY : KeyValues,
     OPENAI_BASE_URL : BaseUrlValues]

\* The knowledge file website_data.txt: missing, or holding a text.
KnowledgeFiles == {[exists |-> FALSE, text |-> <<>>], [exists |-> TRUE, text |-> <<"K">>]}

\* ------------------------------------------------------- JSON request body
\* A JSON value in the place of role or content: null, a string or an array.
JNull == [t |-> "null", s |-> <<>>]

RoleValues ==
    {[t |-> "string", s |-> "user"], [t |-> "string", s |-> "assistant"],
     [t |-> "string", s |-> "system"], [t |-> "array", s |-> ""]}

ContentValues ==
    {JNull} \cup
    {[t |-> "string", s |-> c] : c \in {<<>>, <<" ">>, <<"h">>, <<" ", "h", " ">>, <<"S">>}}

NoRole == [t |-> "null", s |-> ""]

\* An element of `messages`: an object with role and content, or a string.
Items ==
    [t : {"object"}, role : RoleValues, content : ContentValues]
    \cup {[t |-> "string", role |-> NoRole, content |-> JNull]}

NoMessages == [t |-> "null", items |-> <<>>]

\* The request body as sent: text that is no JSON ("text"), JSON nested deeper
\* than the parser's recursion limit ("deep"), or a JSON document.
NoBody == [t |-> "none", messages |-> NoMessages]

Bodies ==
    {[t |-> k, messages |-> NoMessages] : k \in {"text", "deep", "null", "array"}}
    \cup {[t |-> "object", messages |-> m] :
            m \in {NoMessages, [t |-> "string", items |-> <<>>]}
                  \cup {[t |-> "array", items |-> s] : s \in SeqUpTo(Items, MaxMessages)}}

\* json.loads(raw) of the request body
JsonLoads(raw) ==
    IF raw.t = "text" THEN Raise(raw, Exc("JSONDecodeError", "Expecting value"))
    ELSE IF raw.t = "deep"
         THEN Raise(raw, Exc("RecursionError", "maximum recursion depth exceeded"))
         ELSE Return(raw)

\* ------------------------------------------------------ _validate_messages
\* hash(role), which `role not in {"user", "assistant"}` computes first:
\* a list or dict has no hash.
Hashable(v) == v.t # "array"

RECURSIVE ValidateItems(_, _, _)
ValidateItems(items, i, cleaned) ==
    IF i > Len(items)
    THEN IF cleaned = <<>>
         THEN Raise(<<>>, Exc("ValueError", "Body.messages must not be empty."))
         ELSE Return(cleaned)
    ELSE LET item == items[i]
             role == item.role
             content == item.content
         IN  IF item.t # "object"
             THEN Raise(<<>>, Exc("ValueError", "Each message must be an object."))
             ELSE IF ~Hashable(role)
             THEN Raise(<<>>, Exc("TypeError", "unhashable type: 'list'"))
             ELSE IF ~(role.t = "string" /\ role.s \in {"user", "assistant"})
             THEN Raise(<<>>, Exc("ValueError",
                                  "Each message.role must be 'user' or 'assistant'."))
             ELSE IF content.t # "string" \/ Strip(content.s) = <<>>
             THEN Raise(<<>>, Exc("ValueError",
                                  "Each message.content must be a non-empty string."))
             ELSE ValidateItems(items, i + 1,
                                Append(cleaned, [role |-> role.s, content |-> content.s]))

_validate_messages(payload) ==
    IF payload.t # "object"
    THEN Raise(<<>>, Exc("ValueError", "Body must be a JSON object."))
    ELSE IF payload.messages.t # "array"
    THEN Raise(<<>>, Exc("ValueError", "Body.messages must be a JSON array."))
    ELSE ValidateItems(payload.messages.items, 1, <<>>)

\* ------------------------------------------------------------ system prompt
Persona == <<"P">>

_build_system_prompt(knowledge_base) == Persona \o knowledge_base

\* ----------------------------------------------------------------- upstream
\* The body of an upstream answer: text that is no JSON, or a JSON document
\* of which only choices[*].message.content matters.
UpstreamBodies ==
    {[t |-> "text", choices |-> <<>>], [t |-> "json", choices |-> <<>>]}
    \cup {[t |-> "json", choices |-> <<[content |-> c]>>] :
            c \in {JNull, [t |-> "string", s |-> <<" ", "a", " ">>]}}

UpstreamStatuses == {200, 201, 429, 500}

\* What urlopen(...).read() meets: an HTTP answer, a failure to connect
\* (URLError), or a timeout while the answer is read (TimeoutError).
NoOutcome == [t |-> "none", status |-> 0, body |-> NoUpstreamBody]

Outcomes ==
    [t : {"response"}, status : UpstreamStatuses, body : UpstreamBodies]
    \cup {[t |-> k, status |-> 0, body |-> NoUpstreamBody] : k \in {"urlerror", "timeout"}}

\* urllib raises HTTPError for every status outside 200..299.
IsHTTPError(o) == o.t = "response" /\ ~(o.status >= 200 /\ o.status < 300)

JsonDumpsEncodeLenient(messages) == Return(messages)

\* json.dumps(payload, ensure_ascii=False).encode("utf-8")
JsonDumpsEncode(messages) ==
    IF \E i \in 1..Len(messages) : \E j \in 1..Len(messages[i].content) :
            messages[i].content[j] = "S"
    THEN Raise(messages, Exc("UnicodeEncodeError", "surrogates not allowed"))
    ELSE Return(messages)

\* urllib.request.Request(url=...): a URL without a scheme is refused.
NewRequest(base_url) ==
    IF base_url.scheme = ""
    THEN Raise(base_url, Exc("ValueError", "unknown url type"))
    ELSE Return(base_url)

\* The part of _openai_compatible_chat_completion after the answer arrived.
ReadCompletion(o) ==
    IF o.t = "urlerror"
    THEN Raise(<<>>, Exc("RuntimeError", "Failed to reach upstream"))
    ELSE IF o.t = "timeout"
    THEN Raise(<<>>, Exc("TimeoutError", "timed out"))
    ELSE IF IsHTTPError(o)
    THEN Raise(<<>>, [type |-> "RuntimeError", msg |-> "Upstream error",
                      code |-> o.status, raw |-> o.body])
    ELSE IF o.body.t # "json"
    THEN Raise(<<>>, Exc("JSONDecodeError", "Expecting value"))
    ELSE IF o.body.choices = <<>> \/ o.body.choices[1].content.t # "string"
    THEN Raise(<<>>, [type |-> "RuntimeError", msg |-> "Unexpected upstream response",
                      code |-> 0, raw |-> o.body])
    ELSE Return(Strip(o.body.choices[1].content.s))

\* ---------------------------------------------------------------- responses
NoResponse ==
    [status |-> 0, ctype |-> "none", key |-> "", msg |-> "", code |-> 0,
     raw |-> NoUpstreamBody, text |-> <<>>]

\* _json_response(handler, status, {"error": str(e)})
ErrorResponse(status, e) ==
    [status |-> status, ctype |-> "json", key |-> "error", msg |-> e.msg,
     code |-> e.code, raw |-> e.raw, text |-> <<>>]

ReplyResponse(reply) ==
    [status |-> 200, ctype |-> "json", key |-> "reply", msg |-> "", code |-> 0,
     raw |-> NoUpstreamBody, text |-> reply]

HealthResponse ==
    [status |-> 200, ctype |-> "json", key |-> "ok", msg |-> "", code |-> 0,
     raw |-> NoUpstreamBody, text |-> <<>>]

StaticResponse(status) ==
    [status |-> status, ctype |-> "static", key |-> "", msg |-> "", code |-> 0,
     raw |-> NoUpstreamBody, text |-> <<>>]

ExceptResponseAllBadRequest(e) == ErrorResponse(400, e)

\* The except clauses of do_POST, in order.
ExceptResponse(e) ==
    IF IsValueError(e.type) THEN ErrorResponse(400, e) ELSE ErrorResponse(500, e)

\* os.getenv("OPENROUTER_API_KEY") or os.getenv("OPENAI_API_KEY") or ""
ApiKey(env) == PyOr(PyOr(env.OPENROUTER_API_KEY, env.OPENAI_API_KEY), EnvText(<<>>)).v

MissingKeyUnstripped(api_key) == api_key = <<>>

\* not api_key.strip()
MissingKey(api_key) == Strip(api_key) = <<>>

\* ---------------------------------------------------------- request headers
NoHeader == [present |-> FALSE, text |-> <<>>]

Header(text) == [present |-> TRUE, text |-> text]

\* self.headers.get("Content-Length", "0") or "0"
ContentLengthText(h) ==
    LET got == IF h.present THEN h.text ELSE <<"0">>
    IN  IF got = <<>> THEN <<"0">> ELSE got

ContentLengthHeaders ==
    {NoHeader} \cup
    {Header(t) : t \in {<<>>, <<"a", "b", "c">>, <<"0">>, <<"-", "5">>, <<"7">>,
                        <<"1", "0", "0", "0", "0", "0", "0">>,
                        <<"1", "0", "0", "0", "0", "0", "1">>}}

\* -------------------------------------------------------------------- state
VARIABLES
    phase,          \* "start", "serving", or "failed" (main raised)
    SYSTEM_PROMPT,  \* the module-level global
    environ,        \* os.environ after _load_dotenv
    website_data,   \* the knowledge file on disk
    pc,             \* per handler thread: "idle", "reading", "validated", "upstream", "done"
    request,        \* per handler thread: the request line and Content-Length header
    body,           \* per handler thread: the body read from rfile
    user_messages,  \* per handler thread: the local of do_POST
    messages,       \* per handler thread: the adapter's `messages` argument
    calls,          \* per handler thread: urlopen calls made for the request
    outcome,        \* per handler thread: what the upstream did
    response,       \* per handler thread: what was written to the client
    raised,         \* per handler thread: class of an exception that left the handler
    steps,          \* per handler thread: the stages of do_POST the request went through
    errSeen,        \* some finished request met an upstream HTTP error
    uiPc,           \* interactive variant: "new", "idle", "generating", "stopped"
    uiConfig,       \* interactive variant: "ok", "nosecret", "nofile"
    transcript,     \* interactive variant: st.session_state.messages
    prompt          \* interactive variant: the input being answered

httpVars ==
    <<phase, SYSTEM_PROMPT, environ, website_data, pc, request, body, user_messages,
      messages, calls, outcome, response, raised, steps, errSeen>>

uiVars == <<uiPc, uiConfig, transcript, prompt>>

vars == <<httpVars, uiVars>>

Threads == 1..NumRequests

NoRequest == [method |-> "", path |-> "", content_length |-> NoHeader]

\* What the clients and the upstream may do in a run.
FullWorkload ==
    [headers |-> ContentLengthHeaders, bodies |-> Bodies, outcomes |-> Outcomes]

InitThreads ==
    /\ pc = [r \in Threads |-> "idle"]
    /\ request = [r \in Threads |-> NoRequest]
    /\ body = [r \in Threads |-> NoBody]
    /\ user_messages = [r \in Threads |-> <<>>]
    /\ messages = [r \in Threads |-> <<>>]
    /\ calls = [r \in Threads |-> 0]
    /\ outcome = [r \in Threads |-> NoOutcome]
    /\ response = [r \in Threads |-> NoResponse]
    /\ raised = [r \in Threads |-> ""]
    /\ steps = [r \in Threads |-> {}]
    /\ errSeen = FALSE

InitUIIdle ==
    /\ uiPc = "new"
    /\ uiConfig = "ok"
    /\ transcript = <<>>
    /\ prompt = ""

Init ==
    /\ phase = "start"
    /\ SYSTEM_PROMPT = <<>>
    /\ environ \in Envs
    /\ website_data \in KnowledgeFiles
    /\ InitThreads
    /\ InitUIIdle

\* ------------------------------------------------------------------- main()
main ==
    /\ phase = "start"
    /\ IF website_data.exists
       THEN /\ SYSTEM_PROMPT' = _build_system_prompt(website_data.text)
            /\ phase' = "serving"
       ELSE /\ phase' = "failed"
            /\ UNCHANGED SYSTEM_PROMPT
    /\ UNCHANGED <<environ, website_data, pc, request, body, user_messages, messages,
                   calls, outcome, response, raised, steps, errSeen, uiVars>>

\* A handler thread ends its request with response `resp`.
Respond(r, resp) ==
    /\ response' = [response EXCEPT ![r] = resp]
    /\ pc' = [pc EXCEPT ![r] = "done"]

\* ------------------------------------------------------------------ do_GET
do_GET(r) ==
    /\ phase = "serving"
    /\ pc[r] = "idle"
    /\ \E path \in {"/api/health", "/"} : \E static \in {200, 404} :
        /\ request' = [request EXCEPT ![r] =
                          [method |-> "GET", path |-> path, content_length |-> NoHeader]]
        /\ Respond(r, IF path = "/api/health" THEN HealthResponse
                      ELSE StaticResponse(static))
    /\ UNCHANGED <<phase, SYSTEM_PROMPT, environ, website_data, body, user_messages,
                   messages, calls, outcome, raised, steps, errSeen, uiVars>>

\* ----------------------------------------------------------------- do_POST
ContentLengthRejectedNegative(n) == n < 0 \/ n > MaxContentLength

\* content_length <= 0 or content_length > 1_000_000
ContentLengthRejected(n) == n <= 0 \/ n > MaxContentLength

\* Lines 155-167: the route and the Content-Length check, before the try.
do_POST(r, W) ==
    /\ phase = "serving"
    /\ pc[r] = "idle"
    /\ \E path \in {"/api/chat", "/api/other"} : \E h \in W.headers :
        /\ request' = [request EXCEPT ![r] =
                          [method |-> "POST", path |-> path, content_length |-> h]]
        /\ IF path # "/api/chat"
           THEN /\ Respond(r, StaticResponse(404))
                /\ UNCHANGED raised
           ELSE LET content_length == PyInt(ContentLengthText(h))
                IN  IF ~content_length.ok
                    THEN /\ raised' = [raised EXCEPT ![r] = content_length.exc.type]
                         /\ pc' = [pc EXCEPT ![r] = "done"]
                         /\ UNCHANGED response
                    ELSE IF ContentLengthRejected(content_length.val)
                    THEN /\ Respond(r, ErrorResponse(400, Exc("", "Invalid Content-Length.")))
                         /\ UNCHANGED raised
                    ELSE /\ pc' = [pc EXCEPT ![r] = "reading"]
                         /\ UNCHANGED <<response, raised>>
    /\ UNCHANGED <<phase, SYSTEM_PROMPT, environ, website_data, body, user_messages,
                   messages, calls, outcome, steps, errSeen, uiVars>>

\* Lines 170-172: read the body, json.loads, _validate_messages.
ReadBody(r, W) ==
    /\ pc[r] = "reading"
    /\ \E raw \in W.bodies :
        LET payload == JsonLoads(raw)
            validated == IF payload.ok THEN _validate_messages(payload.val)
                         ELSE Raise(<<>>, payload.exc)
        IN  /\ body' = [body EXCEPT ![r] = raw]
            /\ steps' = [steps EXCEPT ![r] =
                            @ \cup {"read"} \cup (IF payload.ok THEN {"validate"} ELSE {})]
            /\ IF validated.ok
               THEN /\ user_messages' = [user_messages EXCEPT ![r] = validated.val]
                    /\ pc' = [pc EXCEPT ![r] = "validated"]
                    /\ UNCHANGED response
               ELSE /\ Respond(r, ExceptResponse(validated.exc))
                    /\ UNCHANGED user_messages
    /\ UNCHANGED <<phase, SYSTEM_PROMPT, environ, website_data, request, messages, calls,
                   outcome, raised, errSeen, uiVars>>

\* The caller's messages taken from whichever handler thread validated some.
OutboundMessagesShared(r) ==
    <<[role |-> "system", content |-> SYSTEM_PROMPT]>>
    \o user_messages[CHOOSE q \in Threads : user_messages[q] # <<>>]

OutboundMessagesStripped(r) ==
    <<[role |-> "system", content |-> SYSTEM_PROMPT]>>
    \o [i \in 1..Len(user_messages[r]) |->
            [role |-> user_messages[r][i].role,
             content |-> Strip(user_messages[r][i].content)]]

\* [{"role": "system", "content": SYSTEM_PROMPT}, *user_messages]
OutboundMessages(r) ==
    <<[role |-> "system", content |-> SYSTEM_PROMPT]>> \o user_messages[r]

\* Lines 174-195 and 75-92: the credential, then the adapter up to urlopen.
CallUpstream(r) ==
    /\ pc[r] = "validated"
    /\ LET api_key == ApiKey(environ)
           data == JsonDumpsEncode(OutboundMessages(r))
           req == NewRequest(environ.OPENAI_BASE_URL.url)
       IN  IF MissingKey(api_key)
           THEN /\ steps' = [steps EXCEPT ![r] = @ \cup {"credential"}]
                /\ Respond(r, ExceptResponse(Exc("RuntimeError",
                                  "Missing OPENROUTER_API_KEY (or OPENAI_API_KEY).")))
                /\ UNCHANGED <<messages, calls>>
           ELSE /\ messages' = [messages EXCEPT ![r] = OutboundMessages(r)]
                /\ IF ~data.ok \/ ~req.ok
                   THEN /\ steps' = [steps EXCEPT ![r] = @ \cup {"credential", "adapter"}]
                        /\ Respond(r, ExceptResponse(IF ~data.ok THEN data.exc ELSE req.exc))
                        /\ UNCHANGED calls
                   ELSE /\ steps' = [steps EXCEPT ![r] =
                                        @ \cup {"credential", "adapter", "urlopen"}]
                        /\ calls' = [calls EXCEPT ![r] = @ + 1]
                        /\ pc' = [pc EXCEPT ![r] = "upstream"]
                        /\ UNCHANGED response
    /\ UNCHANGED <<phase, SYSTEM_PROMPT, environ, website_data, request, body,
                   user_messages, outcome, raised, errSeen, uiVars>>

\* Lines 92-104 and 197-201: the upstream's answer, and the response made of it.
UpstreamAnswers(r, W) ==
    /\ pc[r] = "upstream"
    /\ \E o \in W.outcomes :
        LET reply == ReadCompletion(o)
        IN  /\ outcome' = [outcome EXCEPT ![r] = o]
            /\ Respond(r, IF reply.ok THEN ReplyResponse(reply.val)
                          ELSE ExceptResponse(reply.exc))
    /\ UNCHANGED <<phase, SYSTEM_PROMPT, environ, website_data, request, body,
                   user_messages, messages, calls, raised, steps, errSeen, uiVars>>

\* The handler thread ends; the next connection gets a fresh handler.
Finish(r) ==
    /\ pc[r] = "done"
    /\ pc' = [pc EXCEPT ![r] = "idle"]
    /\ request' = [request EXCEPT ![r] = NoRequest]
    /\ body' = [body EXCEPT ![r] = NoBody]
    /\ user_messages' = [user_messages EXCEPT ![r] = <<>>]
    /\ messages' = [messages EXCEPT ![r] = <<>>]
    /\ calls' = [calls EXCEPT ![r] = 0]
    /\ outcome' = [outcome EXCEPT ![r] = NoOutcome]
    /\ response' = [response EXCEPT ![r] = NoResponse]
    /\ raised' = [raised EXCEPT ![r] = ""]
    /\ steps' = [steps EXCEPT ![r] = {}]
    /\ errSeen' = (errSeen \/ IsHTTPError(outcome[r]))
    /\ UNCHANGED <<phase, SYSTEM_PROMPT, environ, website_data, uiVars>>

\* The server handling one request at a time, with every input shape.
Next ==
    \/ main
    \/ do_GET(1)
    \/ do_POST(1, FullWorkload)
    \/ ReadBody(1, FullWorkload)
    \/ CallUpstream(1)
    \/ UpstreamAnswers(1, FullWorkload)
    \/ Finish(1)

Spec == Init /\ [][Next]_vars

\* ------------------------------------------------ concurrent handler threads
\* ThreadingHTTPServer: every connection has its own handler thread; the threads
\* interleave at the blocking reads (the request body, the upstream's answer).
ConcEnvs ==
    {[OPENROUTER_API_KEY |-> k, OPENAI_API_KEY |-> Unset,
      OPENAI_BASE_URL |-> [set |-> FALSE, url |-> DefaultBaseUrl]] :
        k \in {Unset, EnvText(<<"k">>)}}

UserItem(role, content) ==
    [t |-> "object", role |-> [t |-> "string", s |-> role],
     content |-> [t |-> "string", s |-> content]]

ArrayBody(items) == [t |-> "object", messages |-> [t |-> "array", items |-> items]]

ConcWorkload ==
    [headers |-> {NoHeader, Header(<<"7">>)},
     bodies |-> {[t |-> "text", messages |-> NoMessages],
                 ArrayBody(<<UserItem("system", <<"h">>)>>),
                 ArrayBody(<<UserItem("user", <<"h">>)>>),
                 ArrayBody(<<UserItem("user", <<" ", "h", " ">>),
                             UserItem("assistant", <<"h">>)>>)},
     outcomes |-> {[t |-> "response", status |-> 200,
                    body |-> [t |-> "json",
                              choices |-> <<[content |-> [t |-> "string", s |-> c]]>>]] :
                        c \in {<<" ", "a", " ">>, <<"b">>}}
                  \cup {[t |-> "response", status |-> 500,
                         body |-> [t |-> "text", choices |-> <<>>]]}]

InitConc ==
    /\ phase = "start"
    /\ SYSTEM_PROMPT = <<>>
    /\ environ \in ConcEnvs
    /\ website_data \in KnowledgeFiles
    /\ InitThreads
    /\ InitUIIdle

NextConc ==
    \/ main
    \/ \E r \in Threads :
        \/ do_GET(r)
        \/ do_POST(r, ConcWorkload)
        \/ ReadBody(r, ConcWorkload)
        \/ CallUpstream(r)
        \/ UpstreamAnswers(r, ConcWorkload)
        \/ Finish(r)

SpecConc == InitConc /\ [][NextConc]_vars

\* ------------------------------------------------------ interactive variant
\* A transcript entry's content: a str, or None.
Text(s) == [kind |-> "text", text |-> s]

NoneContent == [kind |-> "none", text |-> ""]

Prompts == {"q1", "q2"}

\* What client.chat.completions.create does: it returns a completion (with a
\* content, a null content, or no choice at all) or raises.
UiOutcomes ==
    {[t |-> "completion", choices |-> <<[content |-> c]>>] : c \in {Text("a1"), NoneContent}}
    \cup {[t |-> "completion", choices |-> <<>>], [t |-> "raise", choices |-> <<>>]}

get_bot_response_uncaught(user_prompt, o) ==
    IF o.t = "raise" THEN Raise(NoneContent, Exc("APIError", "Connection error."))
    ELSE IF o.choices = <<>>
    THEN Raise(NoneContent, Exc("IndexError", "list index out of range"))
    ELSE Return(o.choices[1].content)

\* try: return response.choices[0].message.content
\* except Exception as e: return f"...: {e}"
get_bot_response(user_prompt, o) ==
    IF o.t = "raise" THEN Return(Text("error: Connection error."))
    ELSE IF o.choices = <<>> THEN Return(Text("error: list index out of range"))
    ELSE Return(o.choices[1].content)

InitUI ==
    /\ phase = "start"
    /\ SYSTEM_PROMPT = <<>>
    /\ environ = [OPENROUTER_API_KEY |-> Unset, OPENAI_API_KEY |-> Unset,
                  OPENAI_BASE_URL |-> [set |-> FALSE, url |-> DefaultBaseUrl]]
    /\ website_data = [exists |-> TRUE, text |-> <<"K">>]
    /\ InitThreads
    /\ uiPc = "new"
    /\ uiConfig \in {"ok", "nosecret", "nofile"}
    /\ transcript = <<>>
    /\ prompt = ""

\* Lines 6-20 and 83-84: the first run of the script in a session.
PageLoad ==
    /\ uiPc = "new"
    /\ IF uiConfig = "ok"
       THEN /\ uiPc' = "idle"
            /\ transcript' = <<>>
       ELSE /\ uiPc' = "stopped"
            /\ UNCHANGED transcript
    /\ UNCHANGED <<uiConfig, prompt, httpVars>>

\* Lines 90-95: an input arrives; the user message is appended.
Submit ==
    /\ uiPc = "idle"
    /\ Len(transcript) < 2 * MaxTurns
    /\ \E p \in Prompts :
        /\ transcript' = Append(transcript, [role |-> "user", content |-> Text(p)])
        /\ prompt' = p
    /\ uiPc' = "generating"
    /\ UNCHANGED <<uiConfig, httpVars>>

\* Lines 96-101: get_bot_response returns; the reply is appended.
Answer ==
    /\ uiPc = "generating"
    /\ \E o \in UiOutcomes :
        LET reply == get_bot_response(prompt, o)
        IN  IF reply.ok
            THEN transcript' =
                    Append(transcript, [role |-> "assistant", content |-> reply.val])
            ELSE UNCHANGED transcript
    /\ uiPc' = "idle"
    /\ prompt' = ""
    /\ UNCHANGED <<uiConfig, httpVars>>

NextUI == PageLoad \/ Submit \/ Answer

SpecUI == InitUI /\ [][NextUI]_vars

\* ------------------------------------------------- the claims' vocabulary
Done(r) == pc[r] = "done"

IsChat(r) == request[r].method = "POST" /\ request[r].path = "/api/chat"

\* The body was read: the Content-Length was accepted.
BodyRead(r) == "read" \in steps[r]

\* A body as the interface asks for it: a JSON object whose `messages` is an
\* array of at least one object, each with role "user" or "assistant" and a
\* content that is a string with something other than whitespace in it.
WellFormedBody(b) ==
    /\ b.t = "object"
    /\ b.messages.t = "array"
    /\ Len(b.messages.items) >= 1
    /\ \A i \in 1..Len(b.messages.items) :
        LET item == b.messages.items[i]
        IN  /\ item.t = "object"
            /\ item.role.t = "string"
            /\ item.role.s \in {"user", "assistant"}
            /\ item.content.t = "string"
            /\ \E j \in 1..Len(item.content.s) : item.content.s[j] # " "

\* The caller's messages, read off the body as sent.
CallerMessages(b) ==
    [i \in 1..Len(b.messages.items) |->
        [role |-> b.messages.items[i].role.s, content |-> b.messages.items[i].content.s]]

IsErrorResponse(resp, status) ==
    /\ resp.status = status
    /\ resp.ctype = "json"
    /\ resp.key = "error"
    /\ resp.msg # ""

BlankVariable(x) == ~x.set \/ \A j \in 1..Len(x.v) : x.v[j] = " "

\* Neither key is set, or both are blank.
NoCredential ==
    BlankVariable(environ.OPENROUTER_API_KEY) /\ BlankVariable(environ.OPENAI_API_KEY)

\* The outbound request can be built: every content encodes as UTF-8 and the
\* base URL has a scheme.
Buildable(r) ==
    /\ \A i \in 1..Len(body[r].messages.items) :
          \A j \in 1..Len(body[r].messages.items[i].content.s) :
              body[r].messages.items[i].content.s[j] # "S"
    /\ environ.OPENAI_BASE_URL.url.scheme # ""

\* A 2xx answer that is no JSON or lacks choices[0].message.content.
UnparseableUpstream(o) ==
    /\ o.t = "response"
    /\ o.status \in 200..299
    /\ \/ o.body.t # "json"
       \/ o.body.choices = <<>>
       \/ o.body.choices[1].content.t # "string"

UpstreamSucceeded(o) == o.t = "response" /\ o.status \in 200..299 /\ ~UnparseableUpstream(o)

\* ------------------------------------------------------------------ claims
\* C1 (as claimed): a chat request with an accepted Content-Length whose body is
\* not well formed is answered 400 with a non-empty error, and no upstream call
\* is made.
C1_MalformedBodyIs400 ==
    \A r \in Threads :
        (Done(r) /\ IsChat(r) /\ BodyRead(r) /\ ~WellFormedBody(body[r]))
        => (IsErrorResponse(response[r], 400) /\ calls[r] = 0)

\* C2 (as claimed): without a credential every chat request, whatever its body,
\* is answered 500 with a non-empty error, and no upstream call is made.
C2_NoCredentialAlways500 ==
    NoCredential =>
        \A r \in Threads :
            (Done(r) /\ IsChat(r)) => (IsErrorResponse(response[r], 500) /\ calls[r] = 0)

\* C2 (amended): without a credential no request ever reaches the upstream, and
\* every chat request whose Content-Length is accepted and whose body is well
\* formed is answered 500 with the missing-key error.
C2_NoCredentialValidBody500 ==
    NoCredential =>
        \A r \in Threads :
            /\ calls[r] = 0
            /\ pc[r] # "upstream"
            /\ (Done(r) /\ IsChat(r) /\ BodyRead(r) /\ WellFormedBody(body[r]))
               => /\ IsErrorResponse(response[r], 500)
                  /\ response[r].msg = "Missing OPENROUTER_API_KEY (or OPENAI_API_KEY)."

C2_Witness ==
    /\ NoCredential
    /\ \E r \in Threads :
        /\ Done(r) /\ IsChat(r) /\ BodyRead(r) /\ WellFormedBody(body[r])
        /\ response[r].status = 500

\* C3: an upstream answer with a non-2xx status is reported as 500 with an error
\* that carries the upstream status and raw body, and after such a failure the
\* server still serves: a health request is answered 200 {ok}, and a chat
\* request whose upstream call succeeds is answered 200 with the reply.
C3_UpstreamErrorIs500AndServerServes ==
    \A r \in Threads :
        /\ (Done(r) /\ IsHTTPError(outcome[r]))
           => /\ IsErrorResponse(response[r], 500)
              /\ response[r].code = outcome[r].status
              /\ response[r].raw = outcome[r].body
        /\ errSeen
           => /\ phase = "serving"
              /\ (Done(r) /\ request[r].path = "/api/health")
                 => response[r] = HealthResponse
              /\ (Done(r) /\ UpstreamSucceeded(outcome[r]))
                 => (response[r].status = 200 /\ response[r].key = "reply")

C3_Witness ==
    /\ errSeen
    /\ \E r \in Threads :
        Done(r) /\ IsChat(r) /\ response[r].status = 200 /\ response[r].key = "reply"

\* C4 (as claimed): an unparseable upstream answer is reported as 500 with an
\* error, and a 400 is never given because of what the upstream returned: a
\* request answered 400 got no upstream answer.
C4_UnparseableUpstreamIs500 ==
    \A r \in Threads :
        (Done(r) /\ IsChat(r))
        => /\ UnparseableUpstream(outcome[r]) => IsErrorResponse(response[r], 500)
           /\ response[r].status = 400 => outcome[r] = NoOutcome

\* C5 (as claimed): every chat request ends with a JSON response, an error
\* object when it failed, and no exception leaves do_POST.
C5_EveryFailureIsAJsonError ==
    \A r \in Threads :
        (Done(r) /\ IsChat(r))
        => /\ raised[r] = ""
           /\ response[r].ctype = "json"
           /\ response[r].key \in {"error", "reply"}

\* C6: a well-formed request with a usable key reaches the adapter, and the
\* message list the adapter is given (the one it sends) is one system message
\* holding the startup system prompt followed by the caller's messages in
\* order, role and content unchanged; the system prompt appears once.
C6_SystemPromptThenCallerMessages ==
    \A r \in Threads :
        /\ (Done(r) /\ IsChat(r) /\ BodyRead(r) /\ WellFormedBody(body[r])
              /\ ~MissingKey(ApiKey(environ)))
           => "adapter" \in steps[r]
        /\ (calls[r] > 0 \/ pc[r] = "upstream") => "adapter" \in steps[r]
        /\ "adapter" \in steps[r]
           => /\ messages[r] =
                    <<[role |-> "system",
                       content |-> _build_system_prompt(website_data.text)]>>
                    \o CallerMessages(body[r])
              /\ Cardinality({i \in 1..Len(messages[r]) :
                                 messages[r][i].role = "system"}) = 1

C6_Witness ==
    \E r \in Threads :
        /\ Done(r) /\ response[r].status = 200
        /\ Len(messages[r]) = 3
        /\ messages[r][2] = [role |-> "assistant", content |-> <<" ", "h", " ">>]
        /\ messages[r][3] = [role |-> "user", content |-> <<"h">>]

\* C7 (as claimed): a request that reaches the adapter causes exactly one
\* upstream call, and a request rejected before the adapter causes none.
C7_ExactlyOneCallPerInvocation ==
    \A r \in Threads :
        /\ (Done(r) /\ "adapter" \in steps[r]) => calls[r] = 1
        /\ "adapter" \notin steps[r] => calls[r] = 0

\* C7 (amended): an invocation of the adapter issues at most one upstream call:
\* exactly one when the outbound request can be built, whatever the upstream
\* then does, and none when it cannot; a request rejected before the adapter
\* causes none.
C7_AtMostOneCallPerInvocation ==
    \A r \in Threads :
        /\ calls[r] <= 1
        /\ "adapter" \notin steps[r] => calls[r] = 0
        /\ ("adapter" \in steps[r] /\ Buildable(r)) => calls[r] = 1
        /\ ("adapter" \in steps[r] /\ ~Buildable(r)) => calls[r] = 0
        /\ outcome[r] # NoOutcome => calls[r] = 1

C7_Witness ==
    \E r \in Threads :
        /\ Done(r) /\ "adapter" \in steps[r]
        /\ outcome[r] # NoOutcome
        /\ response[r].status # 200
        /\ calls[r] = 1

\* The Content-Length header is absent, or a number that is not positive or is
\* greater than 1,000,000.
ContentLengthOutOfRange(h) ==
    \/ ~h.present
    \/ /\ PyInt(h.text).ok
       /\ (PyInt(h.text).val <= 0 \/ PyInt(h.text).val > 1000000)

\* C8: a chat request whose Content-Length is absent, not positive or above
\* 1,000,000 is answered 400 with an error before the body is read, and without
\* validation, credential lookup or an upstream call.
C8_BadContentLengthIs400BeforeReading ==
    \A r \in Threads :
        (IsChat(r) /\ ContentLengthOutOfRange(request[r].content_length))
        => /\ Done(r)
           /\ IsErrorResponse(response[r], 400)
           /\ body[r] = NoBody
           /\ steps[r] = {}
           /\ calls[r] = 0

C8_Witness ==
    \E r \in Threads :
        /\ Done(r) /\ IsChat(r)
        /\ request[r].content_length = Header(<<"1", "0", "0", "0", "0", "0", "1">>)
        /\ response[r].status = 400

\* The response do_POST gives a chat request, as a function of the request,
\* the environment and the upstream's answer to it alone.
OwnResponse(req, b, env, o) ==
    LET content_length == PyInt(ContentLengthText(req.content_length))
        payload == JsonLoads(b)
        validated == _validate_messages(b)
        data == JsonDumpsEncode(CallerMessages(b))
        req_url == NewRequest(env.OPENAI_BASE_URL.url)
        reply == ReadCompletion(o)
    IN  IF ~content_length.ok THEN NoResponse
        ELSE IF ContentLengthRejected(content_length.val)
        THEN ErrorResponse(400, Exc("", "Invalid Content-Length."))
        ELSE IF ~payload.ok THEN ExceptResponse(payload.exc)
        ELSE IF ~validated.ok THEN ExceptResponse(validated.exc)
        ELSE IF MissingKey(ApiKey(env))
        THEN ExceptResponse(Exc("RuntimeError",
                                "Missing OPENROUTER_API_KEY (or OPENAI_API_KEY)."))
        ELSE IF ~data.ok THEN ExceptResponse(data.exc)
        ELSE IF ~req_url.ok THEN ExceptResponse(req_url.exc)
        ELSE IF reply.ok THEN ReplyResponse(reply.val)
        ELSE ExceptResponse(reply.exc)

Isolated ==
    \A r \in Threads :
        /\ messages[r] # <<>>
           => messages[r] =
                 <<[role |-> "system",
                    content |-> _build_system_prompt(website_data.text)]>>
                 \o CallerMessages(body[r])
        /\ (Done(r) /\ IsChat(r))
           => response[r] = OwnResponse(request[r], body[r], environ, outcome[r])
        /\ phase # "serving" => pc[r] = "idle"

\* C10: under any interleaving of handler threads, what a request sends upstream
\* and what it answers depend only on its own body, the environment and its
\* own upstream answer; SYSTEM_PROMPT is written by main alone, before any
\* request is handled, and never afterwards.
C10_RequestsAreIsolated ==
    /\ []Isolated
    /\ [][SYSTEM_PROMPT' # SYSTEM_PROMPT
            => (phase = "start" /\ \A r \in Threads : pc[r] = "idle")]_vars

C10_Witness ==
    /\ pc[1] = "upstream"
    /\ Done(2)
    /\ response[2].status = 200
    /\ messages[1] # messages[2]
    /\ Len(messages[1]) = 3

AlternatesFromUser ==
    \A i \in 1..Len(transcript) :
        transcript[i].role = (IF i % 2 = 1 THEN "user" ELSE "assistant")

====
